---- MODULE Spec2Model ----
(***************************************************************************)
(* Model of the Portfolio Store of src/Code.py (class StockPortfolio).     *)
(*                                                                         *)
(* The stocks table is split into the rows that are committed to stocks.db *)
(* and the rows inserted by the open, not yet committed transaction of the *)
(* single sqlite3 connection.  Every SELECT of the Store runs on that      *)
(* connection and sees both.  REAL values are held in hundredths (1.5 is   *)
(* 150), money in cents; CSV fields and formatted report values are text.  *)
(***************************************************************************)
EXTENDS Integers, Sequences, FiniteSets, TLC

VARIABLES
    committed,  \* rows of the stocks table committed to stocks.db
    pending,    \* rows inserted by the connection's open transaction
    portfolio,  \* rows of the portfolio table
    disk,       \* the file last written by export_to_csv
    source,     \* the file the last import_from_csv was called with
    lastOp,     \* the operation called last
    ret,        \* what it returned ("none": it raised, or returns nothing)
    raised,     \* the exception it let through to its caller
    calls,      \* the arguments of the add_to_portfolio calls that returned True
    report      \* what the last portfolio_performance_report did

vars == <<committed, pending, portfolio, disk, source, lastOp, ret, raised,
          calls, report>>

(* ------------------------------ bounds --------------------------------- *)
MaxRows == 2
MaxFileRows == 2
MaxLots == 2

(* ------------------------- generic helpers ----------------------------- *)
Abs(n) == IF n < 0 THEN 0 - n ELSE n

(* ------------------- text <-> value conversions ------------------------ *)
Digits2(n) == IF n < 10 THEN "0" \o ToString(n) ELSE ToString(n)

\* str(int) as csv.writer writes an INTEGER column (id, volume)
PyStr(n) == ToString(n)

\* a format that keeps one decimal only
PyRepr_OneDecimal(v) ==
    ToString(v \div 100) \o "." \o ToString((v % 100) \div 10)

\* repr(float) as csv.writer writes a REAL column; v is in hundredths
PyRepr(v) ==
    ToString(v \div 100) \o "." \o
        (IF v % 10 = 0 THEN ToString((v % 100) \div 10) ELSE Digits2(v % 100))

\* the numbers the texts of the model's CSV sources denote
IntVals == {10, 20}

FloatVals == {100, 125, 150, 200, 250}

\* the texts int() maps to n: its decimal digits
IntSpellings == [n \in IntVals |-> {ToString(n)}]

\* the texts float() maps to v: "2", "2.0" and "2.00" all read as 2.0
FloatSpellings ==
    [v \in FloatVals |->
        {ToString(v \div 100) \o "." \o Digits2(v % 100)}
        \cup (IF v % 10 = 0
              THEN {ToString(v \div 100) \o "." \o ToString((v % 100) \div 10)}
              ELSE {})
        \cup (IF v % 100 = 0 THEN {ToString(v \div 100)} ELSE {})]

IsIntText(t) == \E n \in IntVals : t \in IntSpellings[n]

IsNanText(t) == t = "nan"

IsFloatText(t) == IsNanText(t) \/ \E v \in FloatVals : t \in FloatSpellings[v]

\* int(text), defined where IsIntText
PyInt(t) == CHOOSE n \in IntVals : t \in IntSpellings[n]

\* a parse that keeps the integer part only
PyFloat_Truncating(t) ==
    ((CHOOSE v \in FloatVals : t \in FloatSpellings[v]) \div 100) * 100

\* float(text), defined where IsFloatText and not IsNanText
PyFloat(t) == CHOOSE v \in FloatVals : t \in FloatSpellings[v]

\* the symbol stored as passed
Upper_AsPassed(s) == s

\* str.upper()
Upper(s) ==
    CASE s = "aapl" -> "AAPL"
      [] s = "Aapl" -> "AAPL"
      [] s = "msft" -> "MSFT"
      [] OTHER -> s

(* --------------------------- the CSV source ---------------------------- *)
ImportHeader == <<"Symbol", "Date", "Open", "High", "Low", "Close", "Volume">>

ExportHeader == <<"ID", "Symbol", "Date", "Open", "High", "Low", "Close", "Volume">>

NoVolumeHeader == <<"Symbol", "Date", "Open", "High", "Low", "Close">>

Columns == ImportHeader

NoFile == [exists |-> FALSE, header |-> <<>>, rows |-> <<>>]

\* records that import_from_csv stores
GoodRows ==
    { <<"aapl", "2024-01-03", "1.5", "2", "1.25", "1.50", "10">>,
      <<"AAPL", "2024-01-02", "2.0", "2.5", "1.5", "2", "20">> }

\* a non-numeric Close, a row shorter than the header, an Open that is not
\* a number, a blank line
OddRows ==
    { <<"AAPL", "2024-01-04", "2.0", "2.5", "1.5", "abc", "20">>,
      <<"AAPL", "2024-01-04", "2.0">>,
      <<"AAPL", "2024-01-04", "nan", "2.5", "1.5", "2", "20">>,
      <<>> }

RowSeqs(n) == UNION {[1..k -> GoodRows] : k \in 0..n}

\* the sources the model imports: no file, files of good records, files
\* whose last row is an odd one (the loop of import_from_csv reads nothing
\* after the first row that raises), files whose header has no Volume
SourceFiles ==
    {NoFile} \cup
    {[exists |-> TRUE, header |-> ImportHeader, rows |-> rs] :
        rs \in RowSeqs(MaxFileRows)} \cup
    {[exists |-> TRUE, header |-> ImportHeader, rows |-> Append(rs, r)] :
        rs \in RowSeqs(MaxFileRows - 1), r \in OddRows} \cup
    {[exists |-> TRUE, header |-> NoVolumeHeader, rows |-> <<r>>] :
        r \in GoodRows}

\* csv.DictReader skips the rows that have no field at all
DataRows(f) == SelectSeq(f.rows, LAMBDA r : Len(r) > 0)

\* row[name] of csv.DictReader: the field under the header's column name,
\* None for a column the row is too short for, KeyError for no such column
Field(header, row, name) ==
    IF \A i \in 1..Len(header) : header[i] # name
    THEN [st |-> "KeyError", s |-> ""]
    ELSE LET i == CHOOSE j \in 1..Len(header) : header[j] = name
         IN  IF i > Len(row) THEN [st |-> "None", s |-> ""]
             ELSE [st |-> "str", s |-> row[i]]

\* the error raised by building the i-th parameter of the INSERT
ParamErr(header, row, i) ==
    LET f == Field(header, row, Columns[i])
    IN  CASE f.st = "KeyError" -> "KeyError"
          [] i <= 2 -> "none"
          [] f.st = "None" -> "TypeError"
          [] i <= 6 -> IF IsFloatText(f.s) THEN "none" ELSE "ValueError"
          [] OTHER -> IF IsIntText(f.s) THEN "none" ELSE "ValueError"

\* NOT NULL constraints of the stocks table; sqlite binds NaN as NULL
InsertErr(header, row) ==
    IF \E i \in 1..7 :
          LET f == Field(header, row, Columns[i])
          IN  f.st = "None" \/ (i \in 3..6 /\ IsNanText(f.s))
    THEN "IntegrityError" ELSE "none"

RECURSIVE FirstErr(_, _, _)
FirstErr(header, row, i) ==
    IF i > 7 THEN InsertErr(header, row)
    ELSE IF ParamErr(header, row, i) # "none" THEN ParamErr(header, row, i)
    ELSE FirstErr(header, row, i + 1)

\* the exception raised by the loop body for one row, "none" if inserted
RowErr(header, row) == FirstErr(header, row, 1)

\* the stored row of a record whose RowErr is "none"
MkBar(header, row) ==
    [symbol |-> Field(header, row, "Symbol").s,
     date   |-> Field(header, row, "Date").s,
     open   |-> PyFloat(Field(header, row, "Open").s),
     high   |-> PyFloat(Field(header, row, "High").s),
     low    |-> PyFloat(Field(header, row, "Low").s),
     close  |-> PyFloat(Field(header, row, "Close").s),
     volume |-> PyInt(Field(header, row, "Volume").s)]

\* the outcome of the body of import_from_csv on a readable file: the index
\* of the first row that raises (0 if none), the exception, the rows
\* inserted before it
ImportOutcome(f) ==
    LET rows == DataRows(f)
        bad  == {i \in 1..Len(rows) : RowErr(f.header, rows[i]) # "none"}
        k    == IF bad = {} THEN 0 ELSE CHOOSE i \in bad : \A j \in bad : i <= j
        n    == IF k = 0 THEN Len(rows) ELSE k - 1
    IN  [k        |-> k,
         err      |-> IF k = 0 THEN "none" ELSE RowErr(f.header, rows[k]),
         inserted |-> [i \in 1..n |-> MkBar(f.header, rows[i])]]

(* ------------------------------ queries -------------------------------- *)
\* what a SELECT on the connection reads from the stocks table, in rowid order
StocksView == committed \o pending

\* the BINARY collation key of the date texts of the model
DateKey(d) ==
    CASE d = "2024-01-02" -> 2
      [] d = "2024-01-03" -> 3
      [] d = "2024-01-04" -> 4
      [] OTHER -> 0

RECURSIVE InsertByDate(_, _)
InsertByDate(s, b) ==
    IF s = <<>> THEN <<b>>
    ELSE IF DateKey(b.date) < DateKey(Head(s).date) THEN <<b>> \o s
    ELSE <<Head(s)>> \o InsertByDate(Tail(s), b)

RECURSIVE OrderByDate(_)
OrderByDate(s) ==
    IF s = <<>> THEN <<>>
    ELSE InsertByDate(OrderByDate(SubSeq(s, 1, Len(s) - 1)), s[Len(s)])

DateClose(s) == [i \in 1..Len(s) |-> <<s[i].date, s[i].close>>]

get_stock_data(symbol) ==
    DateClose(OrderByDate(SelectSeq(StocksView, LAMBDA b : b.symbol = Upper(symbol))))

\* SELECT * FROM portfolio: id, symbol, shares, purchase_price, purchase_date
get_portfolio ==
    [i \in 1..Len(portfolio) |->
        <<i, portfolio[i].symbol, portfolio[i].shares,
          portfolio[i].purchase_price, portfolio[i].purchase_date>>]

\* the file export_to_csv writes: the header, then SELECT * FROM stocks
ExportFile(view) ==
    [exists |-> TRUE,
     header |-> ExportHeader,
     rows   |-> [i \in 1..Len(view) |->
                    <<PyStr(i), view[i].symbol, view[i].date,
                      PyRepr(view[i].open), PyRepr(view[i].high),
                      PyRepr(view[i].low), PyRepr(view[i].close),
                      PyStr(view[i].volume)>>]]

(* ------------------------- the quote service --------------------------- *)
\* get_current_price: None, or the last daily close (in cents)
NoPrice == [ok |-> FALSE, v |-> 0]

\* the last close the service has for a symbol
LastClose(symbol) == IF symbol = "AAPL" THEN 11000 ELSE 19000

\* the outcomes of get_current_price(symbol)
get_current_price(symbol) == {NoPrice, [ok |-> TRUE, v |-> LastClose(symbol)]}

\* the outcomes of one pass of lookups over the holdings
Lookups(holdings) ==
    {p \in [1..Len(holdings) -> {NoPrice} \cup
                {[ok |-> TRUE, v |-> LastClose(s)] : s \in {"AAPL", "MSFT"}}] :
        \A i \in 1..Len(holdings) : p[i] \in get_current_price(holdings[i][2])}

(* ----------------------- formatting of the report ---------------------- *)
\* f"{x:.2f}" of a finite x whose value rounds to c hundredths
Fixed2(c, neg) ==
    [kind |-> "num", neg |-> neg, whole |-> Abs(c) \div 100, frac |-> Abs(c) % 100]

\* f"{x:.2f}" of a numpy nan or infinity
NonFinite(k, neg) == [kind |-> k, neg |-> neg, whole |-> 0, frac |-> 0]

\* f"${x:.2f}" of an amount of c cents
FmtMoney(c) == Fixed2(c, c < 0)

\* gain / investment * 100 in hundredths, rounded to the nearest, ties to
\* even (investment # 0); the quotient is taken two decimal places at a time
RoundPct(gain, investment) ==
    LET d  == Abs(investment)
        q1 == Abs(gain) \div d
        r1 == Abs(gain) % d
        q2 == (r1 * 100) \div d
        r2 == (r1 * 100) % d
        q3 == (r2 * 100) \div d
        r3 == (r2 * 100) % d
        q  == q1 * 10000 + q2 * 100 + q3
        m  == IF 2 * r3 > d \/ (2 * r3 = d /\ q % 2 = 1) THEN q + 1 ELSE q
    IN  IF (gain < 0) # (investment < 0) THEN 0 - m ELSE m

\* f"{(gain / investment) * 100:.2f}%" where the division is numpy's when
\* np: zeroNeg tells a zero investment is -0.0
FmtPct(gain, investment, zeroNeg) ==
    IF investment # 0
    THEN Fixed2(RoundPct(gain, investment),
                gain # 0 /\ ((gain < 0) # (investment < 0)))
    ELSE IF gain = 0 THEN NonFinite("nan", FALSE)
    ELSE NonFinite("inf", (gain < 0) # zeroNeg)

(* ------------------- portfolio_performance_report ---------------------- *)
\* status: "returned" or the exception raised; isFalse: the first component
\* returned is False; csv, png: the artifact was written; lookups: the number
\* of get_current_price calls made; quotes1, quotes2: what they returned
NoReport ==
    [status |-> "idle", isFalse |-> FALSE, rows |-> <<>>, summary |-> <<>>,
     csv |-> FALSE, png |-> FALSE, lookups |-> 0,
     symbols |-> <<>>, allocations |-> <<>>,
     quotes1 |-> <<>>, quotes2 |-> <<>>, np |-> FALSE]

ReportRow(stock, current_price) ==
    LET shares        == stock[3]
        investment    == shares * stock[4]
        current_value == shares * current_price
        gain_loss     == current_value - investment
    IN  ("Symbol" :> stock[2]) @@
        ("Shares" :> shares) @@
        ("Avg Purchase Price" :> FmtMoney(stock[4])) @@
        ("Current Price" :> FmtMoney(current_price)) @@
        ("Investment" :> FmtMoney(investment)) @@
        ("Current Value" :> FmtMoney(current_value)) @@
        ("Gain/Loss ($)" :> FmtMoney(gain_loss)) @@
        ("Gain/Loss (%)" :> FmtPct(gain_loss, investment, shares < 0))

\* the for loop of lines 191-217 from holding i on; acc carries the totals,
\* the rows, the number of lookups and the exception that ended the loop
RECURSIVE RowPass(_, _, _, _, _)
RowPass(holdings, p, np, i, acc) ==
    IF i > Len(holdings) THEN acc
    ELSE
      LET stock      == holdings[i]
          investment == stock[3] * stock[4]
          acc1       == [acc EXCEPT !.total_investment = @ + investment,
                                    !.lookups = @ + 1]
      IN  IF ~p[i].ok THEN RowPass(holdings, p, np, i + 1, acc1)
          ELSE IF investment = 0 /\ ~np
          THEN [acc1 EXCEPT !.err = "ZeroDivisionError"]
          ELSE RowPass(holdings, p, np, i + 1,
                 [acc1 EXCEPT !.total_current_value = @ + stock[3] * p[i].v,
                              !.rows = Append(@, ReportRow(stock, p[i].v))])

\* the allocations of lines 237-241: one value per lot whose price is available
RECURSIVE Allocations(_, _, _)
Allocations(holdings, p, i) ==
    IF i > Len(holdings) THEN <<>>
    ELSE (IF p[i].ok THEN <<holdings[i][3] * p[i].v>> ELSE <<>>)
            \o Allocations(holdings, p, i + 1)

\* plt.pie raises ValueError for a negative wedge and for labels that are
\* not as many as the wedges
PieRaises(x, labels) ==
    (\E i \in 1..Len(x) : x[i] < 0) \/ Len(x) # Len(labels)

Summary(total_investment, total_current_value) ==
    ("Total Investment" :> FmtMoney(total_investment)) @@
    ("Total Current Value" :> FmtMoney(total_current_value)) @@
    ("Total Gain/Loss ($)" :> FmtMoney(total_current_value - total_investment)) @@
    ("Total Gain/Loss (%)" :>
        FmtPct(total_current_value - total_investment, total_investment, FALSE))

\* lines 187-254, reached with at least one holding: p1[i], p2[i] are the
\* outcomes of the price lookups for holding i in the row loop and in the
\* chart loop, np tells that a price is a numpy float64 (pandas) and not a
\* Python float
ReportBody(holdings, p1, p2, np) ==
    LET acc == RowPass(holdings, p1, np, 1,
                 [total_investment |-> 0, total_current_value |-> 0,
                  rows |-> <<>>, lookups |-> 0, err |-> "none"])
        \* total_current_value is a numpy float64 once a price was added
        npTotal == np /\ acc.rows # <<>>
        symbols == [i \in 1..Len(holdings) |-> holdings[i][2]]
        allocations == Allocations(holdings, p2, 1)
        r1 == [NoReport EXCEPT !.lookups = acc.lookups, !.np = np,
                               !.quotes1 = SubSeq(p1, 1, acc.lookups)]
        r2 == [r1 EXCEPT !.csv = TRUE,
                         !.lookups = acc.lookups + Len(holdings),
                         !.quotes2 = p2,
                         !.symbols = symbols,
                         !.allocations = allocations]
    IN  IF acc.err # "none" THEN [r1 EXCEPT !.status = acc.err]
        ELSE IF acc.total_investment = 0 /\ ~npTotal
        THEN [r1 EXCEPT !.status = "ZeroDivisionError"]
        ELSE IF PieRaises(allocations, symbols)
        THEN [r2 EXCEPT !.status = "ValueError"]
        ELSE [r2 EXCEPT !.status = "returned", !.png = TRUE,
                        !.rows = acc.rows,
                        !.summary = Summary(acc.total_investment,
                                            acc.total_current_value)]

\* the call without its check for an empty portfolio
ReportResult_NoEmptyCheck(holdings, p1, p2, np) == ReportBody(holdings, p1, p2, np)

\* the whole call: (False, {}) without any lookup when there is no holding
ReportResult(holdings, p1, p2, np) ==
    IF Len(holdings) = 0
    THEN [NoReport EXCEPT !.status = "returned", !.isFalse = TRUE]
    ELSE ReportBody(holdings, p1, p2, np)

(* ------------------------------ the Store ------------------------------ *)
\* the arguments of add_to_portfolio the model draws from; shares is None
\* when isNone (the only argument the NOT NULL constraints then reject)
LotArgs ==
    { [symbol |-> "aapl", isNone |-> FALSE, shares |-> 10,
       purchase_price |-> 10000, purchase_date |-> "2024-01-01"],
      [symbol |-> "MSFT", isNone |-> FALSE, shares |-> 5,
       purchase_price |-> 20000, purchase_date |-> "2024-01-01"],
      [symbol |-> "msft", isNone |-> FALSE, shares |-> 0 - 5,
       purchase_price |-> 20000, purchase_date |-> "2024-02-01"],
      [symbol |-> "Aapl", isNone |-> FALSE, shares |-> 10,
       purchase_price |-> 0, purchase_date |-> "2024-02-01"],
      [symbol |-> "AAPL", isNone |-> TRUE, shares |-> 0,
       purchase_price |-> 10000, purchase_date |-> "2024-01-01"] }

\* the row add_to_portfolio inserts
MkLot(a) ==
    [symbol |-> Upper(a.symbol), shares |-> a.shares,
     purchase_price |-> a.purchase_price, purchase_date |-> a.purchase_date]

\* __init__ on a new stocks.db: both tables empty, nothing exported yet
Init ==
    /\ committed = <<>>
    /\ pending = <<>>
    /\ portfolio = <<>>
    /\ disk = NoFile
    /\ source = NoFile
    /\ lastOp = "init"
    /\ ret = "none"
    /\ raised = "none"
    /\ calls = <<>>
    /\ report = NoReport

import_from_csv ==
    \E f \in SourceFiles \cup {disk} :
      /\ f.exists => Len(StocksView) + Len(ImportOutcome(f).inserted) <= MaxRows
      /\ lastOp' = "import"
      /\ source' = f
      /\ IF ~f.exists
         THEN \* FileNotFoundError, caught
              /\ ret' = "False"
              /\ raised' = "none"
              /\ UNCHANGED <<committed, pending>>
         ELSE LET o == ImportOutcome(f)
              IN  IF o.k = 0
                  THEN /\ committed' = committed \o pending \o o.inserted
                       /\ pending' = <<>>
                       /\ ret' = "True"
                       /\ raised' = "none"
                  ELSE /\ pending' = pending \o o.inserted
                       /\ UNCHANGED committed
                       /\ IF o.err = "ValueError"
                          THEN \* caught
                               /\ ret' = "False"
                               /\ raised' = "none"
                          ELSE \* TypeError, KeyError, sqlite3.Error: not caught
                               /\ ret' = "none"
                               /\ raised' = o.err
      /\ UNCHANGED <<portfolio, disk, calls, report>>

add_to_portfolio(a) ==
    /\ Len(portfolio) < MaxLots
    /\ lastOp' = "add"
    /\ source' = NoFile
    /\ raised' = "none"
    /\ IF a.isNone
       THEN \* sqlite3.IntegrityError, caught
            /\ ret' = "False"
            /\ UNCHANGED <<committed, pending, portfolio, calls>>
       ELSE /\ portfolio' = Append(portfolio, MkLot(a))
            /\ committed' = committed \o pending
            /\ pending' = <<>>
            /\ calls' = Append(calls, a)
            /\ ret' = "True"
    /\ UNCHANGED <<disk, report>>

export_to_csv ==
    \E writable \in BOOLEAN :
      /\ lastOp' = "export"
      /\ source' = NoFile
      /\ raised' = "none"
      /\ IF writable
         THEN /\ disk' = ExportFile(StocksView)
              /\ ret' = "True"
         ELSE \* IOError, caught
              /\ ret' = "False"
              /\ UNCHANGED disk
      /\ UNCHANGED <<committed, pending, portfolio, calls, report>>

\* the process ends and is started again: __del__ closes the connection,
\* which drops the open transaction, and __init__ opens stocks.db anew
Restart ==
    /\ lastOp' = "restart"
    /\ pending' = <<>>
    /\ ret' = "none"
    /\ raised' = "none"
    /\ source' = NoFile
    /\ UNCHANGED <<committed, portfolio, disk, calls, report>>

portfolio_performance_report ==
    \E p1, p2 \in Lookups(get_portfolio), np \in BOOLEAN :
      /\ report' = ReportResult(get_portfolio, p1, p2, np)
      /\ lastOp' = "report"
      /\ source' = NoFile
      /\ ret' = "none"
      /\ raised' = IF report'.status = "returned" THEN "none" ELSE report'.status
      /\ UNCHANGED <<committed, pending, portfolio, disk, calls>>

\* the add_to_portfolio calls of the runs that exercise the stocks table
StoreLotArgs == {a \in LotArgs : a.symbol = "AAPL" \/ a.symbol = "aapl"}

Next ==
    \/ import_from_csv
    \/ \E a \in StoreLotArgs : add_to_portfolio(a)
    \/ export_to_csv
    \/ Restart

Spec == Init /\ [][Next]_vars

ReportNext ==
    \/ \E a \in LotArgs : add_to_portfolio(a)
    \/ portfolio_performance_report
    \/ Restart

ReportSpec == Init /\ [][ReportNext]_vars

(* ============================== properties ============================= *)

\* what the texts of a well-formed source read as, written out
DecimalText ==
    ("1" :> 100) @@ ("1.25" :> 125) @@ ("1.5" :> 150) @@ ("1.50" :> 150) @@
    ("2" :> 200) @@ ("2.0" :> 200) @@ ("2.5" :> 250)

IntegerText == ("10" :> 10) @@ ("20" :> 20)

\* a source in the import format: the seven columns, every record with a
\* text for each, decimal texts for Open..Close, an integer text for Volume
WellFormed(f) ==
    /\ f.exists
    /\ f.header = ImportHeader
    /\ \A i \in 1..Len(f.rows) :
          /\ Len(f.rows[i]) = 7
          /\ \A c \in 3..6 : f.rows[i][c] \in DOMAIN DecimalText
          /\ f.rows[i][7] \in DOMAIN IntegerText

ExpectedBars(f) ==
    [i \in 1..Len(f.rows) |->
        [symbol |-> f.rows[i][1], date |-> f.rows[i][2],
         open |-> DecimalText[f.rows[i][3]], high |-> DecimalText[f.rows[i][4]],
         low |-> DecimalText[f.rows[i][5]], close |-> DecimalText[f.rows[i][6]],
         volume |-> IntegerText[f.rows[i][7]]]]

\* the source has a record whose Open..Close or Volume is not a number
HasNonNumericRow(f) ==
    /\ f.exists
    /\ f.header = ImportHeader
    /\ \E i \in 1..Len(f.rows) :
          /\ Len(f.rows[i]) = 7
          /\ \/ \E c \in 3..6 : f.rows[i][c] \notin DOMAIN DecimalText \cup {"nan"}
             \/ f.rows[i][7] \notin DOMAIN IntegerText

\* C1: an import that fails on a non-numeric field returns False and leaves
\* the rows the Store reads from the stocks table as they were before the call
C1_FailedImportInsertsNothing ==
    [][(lastOp' = "import" /\ HasNonNumericRow(source'))
          => (ret' = "False" /\ StocksView' = StocksView)]_vars

\* the amount in cents a "$X.XX" text reads as
MoneyVal(m) == (IF m.neg THEN 0 - 1 ELSE 1) * (m.whole * 100 + m.frac)

RECURSIVE SumMoney(_, _)
SumMoney(rows, key) ==
    IF rows = <<>> THEN 0
    ELSE MoneyVal(Head(rows)[key]) + SumMoney(Tail(rows), key)

\* C2: the Total Investment and the Total Current Value of a returned summary
\* are the sums of the Investment and the Current Value of the returned rows
C2_SummaryIsTotalOfRows ==
    (lastOp = "report" /\ report.status = "returned" /\ ~report.isFalse) =>
        /\ MoneyVal(report.summary["Total Investment"])
              = SumMoney(report.rows, "Investment")
        /\ MoneyVal(report.summary["Total Current Value"])
              = SumMoney(report.rows, "Current Value")

AllAvailable(q) == \A i \in 1..Len(q) : q[i].ok

RECURSIVE SumInvestment(_)
SumInvestment(lots) ==
    IF lots = <<>> THEN 0
    ELSE Head(lots).shares * Head(lots).purchase_price + SumInvestment(Tail(lots))

RECURSIVE SumValue(_, _)
SumValue(lots, q) ==
    IF lots = <<>> THEN 0
    ELSE Head(lots).shares * Head(q).v + SumValue(Tail(lots), Tail(q))

\* the text is the percentage gain / investment * 100 to two decimals
IsPctOf(t, gain, investment) ==
    /\ t.kind = "num"
    /\ investment # 0
    /\ 2 * Abs(MoneyVal(t) * investment - gain * 10000) <= Abs(investment)

\* C3: with a price for every lot and no lot of zero investment the report
\* returns one row per lot holding shares x purchase price, shares x current
\* price, their difference and its percentage, and a summary of their sums
C3_ReportValues ==
    (/\ lastOp = "report"
     /\ Len(portfolio) > 0
     /\ AllAvailable(report.quotes1)
     /\ AllAvailable(report.quotes2)
     /\ \A i \in 1..Len(portfolio) :
           portfolio[i].shares * portfolio[i].purchase_price # 0)
    =>
    /\ report.status = "returned"
    /\ Len(report.rows) = Len(portfolio)
    /\ \A i \in 1..Len(report.rows) :
          LET investment == portfolio[i].shares * portfolio[i].purchase_price
              value      == portfolio[i].shares * report.quotes1[i].v
              row        == report.rows[i]
          IN  /\ row["Symbol"] = portfolio[i].symbol
              /\ MoneyVal(row["Investment"]) = investment
              /\ MoneyVal(row["Current Value"]) = value
              /\ MoneyVal(row["Gain/Loss ($)"]) = value - investment
              /\ IsPctOf(row["Gain/Loss (%)"], value - investment, investment)
    /\ LET ti  == SumInvestment(portfolio)
           tcv == SumValue(portfolio, report.quotes1)
       IN  /\ MoneyVal(report.summary["Total Investment"]) = ti
           /\ MoneyVal(report.summary["Total Current Value"]) = tcv
           /\ MoneyVal(report.summary["Total Gain/Loss ($)"]) = tcv - ti
           /\ IsPctOf(report.summary["Total Gain/Loss (%)"], tcv - ti, ti)

\* C4: a report on an empty portfolio returns (False, {}), writes neither
\* artifact and looks no price up
C4_EmptyPortfolioReport ==
    (lastOp = "report" /\ Len(portfolio) = 0) =>
        /\ report.status = "returned"
        /\ report.isFalse
        /\ report.summary = <<>>
        /\ ~report.csv
        /\ ~report.png
        /\ report.lookups = 0

C4_Witness == lastOp = "report" /\ portfolio = <<>> /\ report.isFalse

\* the upper-case form of the symbols passed to add_to_portfolio, written out
UpperCased ==
    ("aapl" :> "AAPL") @@ ("Aapl" :> "AAPL") @@ ("AAPL" :> "AAPL") @@
    ("msft" :> "MSFT") @@ ("MSFT" :> "MSFT")

\* C5: get_portfolio returns one lot per successful add_to_portfolio call, in
\* call order, with the symbol in upper case and the other arguments as
\* passed, and no operation changes or removes a lot returned before
C5_LotsAsAdded ==
    /\ [](/\ Len(get_portfolio) = Len(calls)
          /\ \A i \in 1..Len(calls) :
                get_portfolio[i] =
                    <<i, UpperCased[calls[i].symbol], calls[i].shares,
                      calls[i].purchase_price, calls[i].purchase_date>>)
    /\ [][/\ Len(get_portfolio') >= Len(get_portfolio)
          /\ \A i \in 1..Len(get_portfolio) : get_portfolio'[i] = get_portfolio[i]]_vars

C5_Witness ==
    /\ lastOp = "add"
    /\ ret = "True"
    /\ Len(calls) >= 2
    /\ calls[1].symbol = "aapl"
    /\ calls[2].symbol # "aapl"
    /\ get_portfolio[1][2] = "AAPL"

\* C6: importing a well-formed source of N records returns True and appends
\* exactly its N records, texts unchanged and numbers parsed, to the rows of
\* the stocks table, which stay as they were; duplicates are inserted too
C6_WellFormedImport ==
    [][(lastOp' = "import" /\ WellFormed(source'))
          => (/\ ret' = "True"
              /\ raised' = "none"
              /\ StocksView' = StocksView \o ExpectedBars(source')
              /\ pending' = <<>>)]_vars

C6_Witness ==
    /\ lastOp = "import"
    /\ WellFormed(source)
    /\ Len(source.rows) = 1
    /\ Len(StocksView) = 2
    /\ StocksView[1] = StocksView[2]

\* the (date, close) pairs of the stored bars of a symbol, earliest first
BarsOf(symbol) ==
    DateClose(OrderByDate(SelectSeq(StocksView, LAMBDA b : b.symbol = symbol)))

\* C7: get_stock_data(symbol) returns the (date, close) pairs of all stored
\* bars of that symbol by ascending date, for every symbol an import has
\* stored, and the empty sequence for a symbol without bars
C7_PriceHistory ==
    /\ \A i \in 1..Len(StocksView) :
          get_stock_data(StocksView[i].symbol) = BarsOf(StocksView[i].symbol)
    /\ \A sym \in {"AAPL", "MSFT"} :
          (\A i \in 1..Len(StocksView) : StocksView[i].symbol # sym)
              => get_stock_data(sym) = <<>>

\* the source is missing, or its header lacks a column, or one of its records
\* is shorter than the header or has a field that is not a number
Malformed(f) ==
    \/ ~f.exists
    \/ \E c \in 1..7 : \A j \in 1..Len(f.header) : f.header[j] # Columns[c]
    \/ \E i \in 1..Len(f.rows) :
          /\ Len(f.rows[i]) > 0
          /\ \/ Len(f.rows[i]) < Len(f.header)
             \/ \E j \in 1..Len(f.header) :
                   /\ f.header[j] \in {"Open", "High", "Low", "Close"}
                   /\ f.rows[i][j] \notin DOMAIN DecimalText
             \/ \E j \in 1..Len(f.header) :
                   /\ f.header[j] = "Volume"
                   /\ f.rows[i][j] \notin DOMAIN IntegerText

\* C8: import_from_csv lets no error through: on a source that is missing or
\* malformed it returns False
C8_ImportNeverRaises ==
    (lastOp = "import" /\ Malformed(source)) => (raised = "none" /\ ret = "False")

\* C9: the file export_to_csv writes imports without error into an empty
\* store as the rows of the exported table, in order and field by field,
\* and export_to_csv changes neither table
C9_ExportImportRoundTrip ==
    /\ []((lastOp = "export" /\ ret = "True") =>
            /\ ImportOutcome(disk).k = 0
            /\ ImportOutcome(disk).inserted = StocksView)
    /\ [][lastOp' = "export" => UNCHANGED <<committed, pending, portfolio>>]_vars

C9_Witness ==
    /\ lastOp = "export"
    /\ ret = "True"
    /\ Len(StocksView) >= 2
    /\ \E i \in 1..Len(StocksView) : StocksView[i].low % 100 # 0
    /\ Len(disk.rows) = Len(StocksView)

\* C10: whenever the chart of a report is drawn there is one allocation per
\* symbol label, the i-th being shares x current price of the i-th lot, and
\* the chart is written
C10_ChartValuePerLabel ==
    (lastOp = "report" /\ report.csv) =>
        /\ Len(report.allocations) = Len(report.symbols)
        /\ \A i \in 1..Len(report.allocations) :
              /\ report.symbols[i] = portfolio[i].symbol
              /\ report.quotes2[i].ok
              /\ report.allocations[i] = portfolio[i].shares * report.quotes2[i].v
        /\ report.png
        /\ report.status = "returned"

====
